---- MODULE Spec2Model ----
(***************************************************************************)
(* Monte Carlo option pricing with CURAND (pricingengine.cu, test.cpp,     *)
(* genericoption.h).                                                       *)
(*                                                                         *)
(* Real numbers are modelled in fixed point: the integer x stands for the  *)
(* real x / One.  Option values are kept as exact rationals [num, den] so  *)
(* that the host's "divide by m_numSims, multiply by exp(-r*tenor)" step   *)
(* is a real conversion and not the identity.                              *)
(*                                                                         *)
(* Specifications:                                                         *)
(*   SpecVal    the four valuation kernels applied to an arbitrary path    *)
(*              matrix and option                                          *)
(*   SpecCPU    PricingEngine::operator[] with box_muller, run repeatedly  *)
(*   SpecReduce the lanes of one thread block executing reduce_sum         *)
(*   SpecGen    two runs of initRNG ; generatePaths, lane by lane          *)
(*   Spec       PricingEngine::operator() : host thread, stream, kernels   *)
(*   SpecTest   Test::operator() : pricer(option) then pricer[option]      *)
(*   SpecStride initRNG ; generatePaths for path counts at both ends of    *)
(*              the unsigned int range                                     *)
(*   SpecSize   the work-sizing loop of operator(), step by step           *)
(*   SpecSum    one valuation kernel on a complete path matrix             *)
(*   SpecKnockReduce  the two reduce_sum calls of computeValueKnockoutin   *)
(*   SpecAlloc  allocation of the path buffer and generatePaths            *)
(*                                                                         *)
(* An unsigned int has Word values (2^5 standing for 2^32); U(x) is        *)
(* unsigned arithmetic.                                                    *)
(***************************************************************************)
EXTENDS Integers, Sequences, FiniteSets, TLC

\* ------------------------------------------------------------------ bounds
MaxPathVal == 3
ValMaxSims == 1
MaxSteps == 2
MaxSpot == 2
MaxStrike == 2
MaxBlock == 2
CpuMaxSims == 2
MaxRuns == 2
RedMaxBlock == 4
MaxIn == 1
GenMaxSims == 2
GenMaxLanes == 2
MaxSeed == 1
MaxSims == 2
MaxThreads == 2
StrideMaxSims == 3
StrideMaxLanes == 2
SumMaxSims == 3
SumMaxBlock == 3
SumMaxGrid == 2
AllocMaxSims == 2
AllocMaxSteps == 16

\* ------------------------------------------------------- program constants
\* static_cast<Real>(1): the fixed-point representation of the real 1
One == 2
\* unsigned int blocksPerSM = 10
blocksPerSM == 10
\* contents of memory that has been allocated and not yet written
Uninit == -1
\* the number of values of an unsigned int: 2^32 in the program, 2^5 here
Word == 32

VARIABLES
    \* ---- PricingEngine fields, launch configuration, the option
    engine,        \* [numSims, threadBlockSize, seed]  (m_numSims, ...)
    launch,        \* [grid, block]                    (dim3 grid, block)
    option,        \* genericOption<Real>
    \* ---- device memory
    paths,         \* run -> [offset -> Real]           (d_paths)
    \* ---- position of the valuation sequence (SpecVal)
    valPc,
    \* ---- PricingEngine::operator[] and box_muller
    cpuPc,         \* position in operator[]
    cpuRuns,       \* completed calls of operator[]
    thisone, pos, St, sumVanilla, valOp,     \* locals of operator[]
    y2, use_last,  \* the statics of box_muller
    \* ---- device memory written by the valuation kernels
    d_values,      \* [bid -> Real]
    d_values2,     \* [bid -> Real]
    \* ---- one thread block inside reduce_sum
    sdata,         \* [ltid -> Real]   (SharedMemory<Real>)
    redPc,         \* [ltid -> position of the lane]
    redS,          \* [ltid -> the lane's loop variable s]
    redBar,        \* [ltid -> number of __syncthreads() the lane has reached]
    redIn,         \* [ltid -> the arguments of the lane's reduce_sum calls]
    redRet,        \* [ltid -> the values its reduce_sum calls returned]
    \* ---- the device, per pricing run
    stream,        \* run -> kernels launched and not yet complete, in order
    issued,        \* run -> kernels launched so far
    rngStates,     \* run -> [tid -> curandState]        (d_rngStates)
    initDone,      \* run -> lanes of initRNG that have run
    genLane,       \* run -> [tid -> lane of generatePaths]
    pathWrites,    \* run -> [offset -> number of stores to the cell]
    valLane,       \* [tid -> sums of the lane of the running valuation kernel]
    blocksStored,  \* blocks of the valuation kernel that stored their sum
    \* ---- the host thread inside PricingEngine::operator()
    hostPc,        \* run -> index into Program (0: not called)
    err,           \* the exception thrown, "" if none
    allocated,     \* device buffers cudaMalloc has returned
    frees,         \* [buffer -> number of cudaFree calls on it]
    values,        \* vector<Real> values
    funcAttributes,    \* [kernel, maxThreadsPerBlock] of the last query
    deviceProperties,  \* [version, numSMs]
    realType       \* "float" or "double"

cfgVars == <<engine, launch, option>>
cpuLocals == <<thisone, pos, St, sumVanilla, valOp>>
cpuStatics == <<y2, use_last>>
cpuVars == <<cpuPc, cpuRuns, cpuLocals, cpuStatics>>
valuesVars == <<d_values, d_values2>>
redVars == <<sdata, redPc, redS, redBar, redIn, redRet>>
devVars == <<stream, issued, rngStates, initDone, genLane, pathWrites, valLane,
             blocksStored>>
hostVars == <<hostPc, err, allocated, frees, values, funcAttributes,
              deviceProperties, realType>>
vars == <<cfgVars, paths, valPc, cpuVars, valuesVars, redVars, devVars, hostVars>>

\* what each specification's actions leave alone
notVal == <<engine, launch, paths, cpuVars, valuesVars, redVars, devVars, hostVars>>
notCpu == <<engine, launch, paths, valPc, valuesVars, redVars, devVars, hostVars>>
notRed == <<engine, launch, option, paths, valPc, cpuVars, devVars, hostVars>>
notRun == <<valPc, cpuVars, redVars>>

\* ------------------------------------------------------- Real arithmetic
Max(a, b) == IF a > b THEN a ELSE b

\* product of two fixed-point reals
Mul(a, b) == (a * b) \div One

\* rationals for the finished values
Rat(n, d) == [num |-> n, den |-> d]
RatEq(a, b) == a.num * b.den = b.num * a.den
RatAdd(a, b) == Rat(a.num * b.den + b.num * a.den, a.den * b.den)
RatIsZero(a) == a.num = 0
Unset == Rat(Uninit, 1)

\* ------------------------------------------------------------ the option
Call == "Call"
Put == "Put"

numTimestepsOf(opt) == opt.tenor \div opt.dt

\* ------------------------------------------------------ valuation kernels
\* computeValuePlainVanilla, the loop over t: finval = *path
RECURSIVE PlainVanillaLoop(_, _, _, _, _, _)
PlainVanillaLoop(p, ns, nt, i, t, finval) ==
    IF t < nt THEN PlainVanillaLoop(p, ns, nt, i, t + 1, p[t * ns + i])
    ELSE finval

\* payoff = max(0, +/-(finval - strike))
CallPutPayoff(opt, finval) ==
    LET payoff == finval - opt.strike
        signed == IF opt.type = Put THEN - payoff ELSE payoff
    IN Max(0, signed)

PayoffPlainVanilla(p, opt, ns, nt, i) ==
    LET finval == Mul(PlainVanillaLoop(p, ns, nt, i, 0, 0), opt.spot)
    IN CallPutPayoff(opt, finval)

\* computeValueAsian, the loop over t: avg += *path
RECURSIVE AsianLoop(_, _, _, _, _, _)
AsianLoop(p, ns, nt, i, t, avg) ==
    IF t < nt THEN AsianLoop(p, ns, nt, i, t + 1, avg + p[t * ns + i])
    ELSE avg

PayoffAsian(p, opt, ns, nt, i) ==
    LET avg == Mul(AsianLoop(p, ns, nt, i, 0, 0), opt.spot) \div nt
    IN CallPutPayoff(opt, avg)

\* computeValueLookback, the loop over t: finval = *path; valmin tracks the
\* minimum, starting from 1
RECURSIVE LookbackLoop(_, _, _, _, _, _)
LookbackLoop(p, ns, nt, i, t, st) ==
    IF t < nt
    THEN LET finval == p[t * ns + i]
         IN LookbackLoop(p, ns, nt, i, t + 1,
               [finval |-> finval,
                valmin |-> IF st.valmin > finval THEN finval ELSE st.valmin])
    ELSE st

LookbackStart == [finval |-> 0, valmin |-> One]

LookbackFloor(p, opt, ns, nt, i) ==
    Mul(LookbackLoop(p, ns, nt, i, 0, LookbackStart).valmin, opt.spot)

\* the comparison of the running minimum turned round: valmin < finval
RECURSIVE LookbackLoopFlipped(_, _, _, _, _, _)
LookbackLoopFlipped(p, ns, nt, i, t, st) ==
    IF t < nt
    THEN LET finval == p[t * ns + i]
         IN LookbackLoopFlipped(p, ns, nt, i, t + 1,
               [finval |-> finval,
                valmin |-> IF st.valmin < finval THEN finval ELSE st.valmin])
    ELSE st

PayoffLookbackFlipped(p, opt, ns, nt, i) ==
    LET st == LookbackLoopFlipped(p, ns, nt, i, 0, LookbackStart)
        finval == Mul(st.finval, opt.spot)
        payoff == finval - Mul(st.valmin, opt.spot)
    IN Max(0, payoff)

PayoffLookback(p, opt, ns, nt, i) ==
    LET st == LookbackLoop(p, ns, nt, i, 0, LookbackStart)
        finval == Mul(st.finval, opt.spot)
        payoff == finval - Mul(st.valmin, opt.spot)
    IN Max(0, payoff)

\* computeValueKnockoutin, the loop over t: killer drops to 0 once
\* finval * spot > barrier
RECURSIVE KnockLoop(_, _, _, _, _, _, _)
KnockLoop(p, opt, ns, nt, i, t, st) ==
    IF t < nt
    THEN LET finval == p[t * ns + i]
         IN KnockLoop(p, opt, ns, nt, i, t + 1,
               [finval |-> finval,
                killer |-> IF Mul(finval, opt.spot) > opt.barrier
                           THEN 0 ELSE st.killer])
    ELSE st

KnockStart == [finval |-> 0, killer |-> One]

Breached(p, opt, ns, nt, i) ==
    KnockLoop(p, opt, ns, nt, i, 0, KnockStart).killer = 0

PayoffKnockout(p, opt, ns, nt, i) ==
    LET st == KnockLoop(p, opt, ns, nt, i, 0, KnockStart)
        finvalknockout == Mul(Mul(st.finval, opt.spot), st.killer)
    IN CallPutPayoff(opt, finvalknockout)

PayoffKnockin(p, opt, ns, nt, i) ==
    LET st == KnockLoop(p, opt, ns, nt, i, 0, KnockStart)
        finvalknockin == Mul(Mul(st.finval, opt.spot), One - st.killer)
    IN CallPutPayoff(opt, finvalknockin)

Payoff(K, p, opt, ns, nt, i) ==
    CASE K = "PlainVanilla" -> PayoffPlainVanilla(p, opt, ns, nt, i)
      [] K = "Asian"        -> PayoffAsian(p, opt, ns, nt, i)
      [] K = "Lookback"     -> PayoffLookback(p, opt, ns, nt, i)
      [] K = "Knockout"     -> PayoffKnockout(p, opt, ns, nt, i)
      [] K = "Knockin"      -> PayoffKnockin(p, opt, ns, nt, i)

\* the grid-stride loop of a lane: for (i = tid; i < numSims; i += step);
\* it is applied only where numSims + step <= Word, so i += step does not wrap
RECURSIVE LaneSum(_, _, _, _, _, _, _)
LaneSum(K, p, opt, ns, nt, i, step) ==
    IF i < ns
    THEN Payoff(K, p, opt, ns, nt, i) + LaneSum(K, p, opt, ns, nt, i + step, step)
    ELSE 0

\* reduce_sum as a function of the block's inputs: the tree of additions
\* for s = blockDim/2, blockDim/4, ..., 1
RECURSIVE ReduceLevels(_, _)
ReduceLevels(sd, s) ==
    IF s > 0
    THEN ReduceLevels([l \in DOMAIN sd |->
                          IF l < s THEN sd[l] + sd[l + s] ELSE sd[l]], s \div 2)
    ELSE sd[0]

ReduceTree(in, blockDim) == ReduceLevels(in, blockDim \div 2)

\* what a valuation kernel leaves in values[bid]
BlockSum(K, p, opt, ns, nt, lc, bid) ==
    ReduceTree([l \in 0 .. lc.block - 1 |->
                  LaneSum(K, p, opt, ns, nt, bid * lc.block + l, lc.grid * lc.block)],
               lc.block)

PartialSums(K, p, opt, ns, nt, lc) ==
    [bid \in 0 .. lc.grid - 1 |-> BlockSum(K, p, opt, ns, nt, lc, bid)]

\* std::accumulate(values.begin(), values.end(), 0)
RECURSIVE Accumulate(_, _)
Accumulate(v, n) == IF n = 0 THEN 0 ELSE Accumulate(v, n - 1) + v[n - 1]

\* exp(-r * tenor), as a positive rational that decreases in r * tenor
Discount(opt) == Rat(One, One + opt.r * opt.tenor)

\* sum / m_numSims * exp(-r * tenor)
Finish(sum, ns, opt) ==
    LET d == Discount(opt) IN Rat(sum * d.num, ns * d.den)

\* ------------------------------------------------------- workload sizing
RECURSIVE HalveGrid(_, _)
HalveGrid(g, limit) == IF g > limit THEN HalveGrid(g \div 2, limit) ELSE g

\* unsigned int arithmetic: the result modulo the number of values
U(x) == x % Word

\* m_numSims * numTimesteps, the element count of the path buffer, an
\* unsigned int product (scaled by sizeof(Real) only afterwards)
PathElements(eng, opt) == U(eng.numSims * numTimestepsOf(opt))
PathCells(eng, opt) == 0 .. PathElements(eng, opt) - 1

\* grid.x = (m_numSims + m_threadBlockSize - 1) / m_threadBlockSize, then
\* halved while it exceeds 2 * blocksPerSM * numSMs, all in unsigned int
GridX(numSims, tbs, numSMs) ==
    HalveGrid(U(numSims + tbs - 1) \div tbs, U(2 * blocksPerSM * numSMs))

Launch(eng, numSMs) ==
    [grid |-> GridX(eng.numSims, eng.threadBlockSize, numSMs),
     block |-> eng.threadBlockSize]

\* ======================================================================
\* SpecVal: the valuation kernels and the host's finishing step applied to
\* an arbitrary path matrix
\* ======================================================================
BigBarrier == Mul(MaxPathVal, One * MaxSpot)

ValOptions ==
    [spot : {One * k : k \in 1 .. MaxSpot},
     strike : 0 .. MaxStrike,
     r : {1}, sigma : {1},
     tenor : 1 .. MaxSteps, dt : {1},
     barrier : {One, One + 1, BigBarrier},
     type : {Call, Put},
     valueAsian : {Unset}, valuePlainVanilla : {Unset},
     valuePlainVanillaCPU : {Unset}, valueKnockout : {Unset},
     valueKnockin : {Unset}, valueLookback : {Unset}]

\* the option of Test<Real>::operator(): spot 40, strike 35, barrier 45, a
\* Call, here 2, 3/2 and 5/2
TestOption ==
    [spot |-> 2 * One, strike |-> One + 1, r |-> 1, sigma |-> 1,
     tenor |-> 2, dt |-> 1, barrier |-> 2 * One + 1, type |-> Call,
     valueAsian |-> Unset, valuePlainVanilla |-> Unset,
     valuePlainVanillaCPU |-> Unset, valueKnockout |-> Unset,
     valueKnockin |-> Unset, valueLookback |-> Unset]

Runs == {1, 2}

NoPaths == [r \in Runs |-> << >>]

\* the parts of the state a specification does not use stay as they are here
ValIdle == valPc = "off"
CpuIdle ==
    /\ cpuPc = "idle" /\ cpuRuns = 0
    /\ thisone = 0 /\ pos = 0 /\ St = 0 /\ sumVanilla = 0 /\ valOp = 0
    /\ y2 = 0 /\ use_last = 0
NoValues == d_values = << >> /\ d_values2 = << >>
Buffers == {"d_option", "d_paths", "d_rngStates", "d_values", "d_values2"}
DevIdle ==
    /\ stream = [r \in Runs |-> << >>]
    /\ issued = [r \in Runs |-> {}]
    /\ rngStates = [r \in Runs |-> << >>]
    /\ initDone = [r \in Runs |-> {}]
    /\ genLane = [r \in Runs |-> << >>]
    /\ pathWrites = [r \in Runs |-> << >>]
    /\ valLane = << >>
    /\ blocksStored = {}
HostIdle ==
    /\ hostPc = [r \in Runs |-> 0]
    /\ err = ""
    /\ allocated = {}
    /\ frees = [b \in Buffers |-> 0]
    /\ values = << >>
    /\ funcAttributes = [kernel |-> "", maxThreadsPerBlock |-> 0]
    /\ deviceProperties = [version |-> 0, numSMs |-> 0]
    /\ realType = "float"
RedIdle ==
    /\ sdata = << >> /\ redPc = << >> /\ redS = << >> /\ redBar = << >>
    /\ redIn = << >> /\ redRet = << >>

ValInit ==
    /\ engine \in [numSims : 1 .. ValMaxSims, threadBlockSize : 1 .. MaxBlock,
                   seed : {0}]
    /\ launch = Launch(engine, 1)
    /\ option \in ValOptions
    /\ \E m \in [0 .. engine.numSims * numTimestepsOf(option) - 1 -> 1 .. MaxPathVal] :
          paths = [NoPaths EXCEPT ![1] = m]
    /\ valPc = "PlainVanilla"
    /\ CpuIdle /\ NoValues /\ RedIdle /\ DevIdle /\ HostIdle

Value(K) ==
    LET ns == engine.numSims
        nt == numTimestepsOf(option)
    IN Finish(Accumulate(PartialSums(K, paths[1], option, ns, nt, launch),
                         launch.grid), ns, option)

ValPlainVanilla ==
    /\ valPc = "PlainVanilla"
    /\ option' = [option EXCEPT !.valuePlainVanilla = Value("PlainVanilla")]
    /\ valPc' = "Asian"
    /\ UNCHANGED notVal

ValAsian ==
    /\ valPc = "Asian"
    /\ option' = [option EXCEPT !.valueAsian = Value("Asian")]
    /\ valPc' = "Knockoutin"
    /\ UNCHANGED notVal

ValKnockoutin ==
    /\ valPc = "Knockoutin"
    /\ option' = [option EXCEPT !.valueKnockout = Value("Knockout"),
                                !.valueKnockin = Value("Knockin")]
    /\ valPc' = "Lookback"
    /\ UNCHANGED notVal

ValLookback ==
    /\ valPc = "Lookback"
    /\ option' = [option EXCEPT !.valueLookback = Value("Lookback")]
    /\ valPc' = "done"
    /\ UNCHANGED notVal

ValNext == ValPlainVanilla \/ ValAsian \/ ValKnockoutin \/ ValLookback

SpecVal == ValInit /\ [][ValNext]_vars

\* ---- properties of the valuation kernels (SpecVal)
ValSims == 0 .. engine.numSims - 1
ValSteps == 0 .. numTimestepsOf(option) - 1
ValPayoff(K, i) ==
    Payoff(K, paths[1], option, engine.numSims, numTimestepsOf(option), i)
KnockoutinDone == valPc \in {"Lookback", "done"}

\* C2: after the Knockout/Knockin pass every path has a non-zero payoff in
\* at most one of the two sums, its knockout payoff plus its knockin payoff
\* is its PlainVanilla payoff, and valueKnockout + valueKnockin equals
\* valuePlainVanilla.
C2_KnockPartition ==
    KnockoutinDone =>
       /\ \A i \in ValSims :
             /\ ValPayoff("Knockout", i) = 0 \/ ValPayoff("Knockin", i) = 0
             /\ ValPayoff("Knockout", i) + ValPayoff("Knockin", i)
                   = ValPayoff("PlainVanilla", i)
       /\ RatEq(RatAdd(option.valueKnockout, option.valueKnockin),
                option.valuePlainVanilla)

\* spot * PathMatrix[i,t] never exceeds the barrier
NeverExceeded ==
    \A c \in DOMAIN paths[1] : ~ (Mul(paths[1][c], option.spot) > option.barrier)

\* C3: when no path ever exceeds the barrier, valueKnockout equals
\* valuePlainVanilla and valueKnockin is 0.
C3_UnbreachedBarrier ==
    (KnockoutinDone /\ NeverExceeded) =>
       /\ RatEq(option.valueKnockout, option.valuePlainVanilla)
       /\ RatIsZero(option.valueKnockin)

\* the PlainVanilla Call payoff max(0, spot*final - strike) of path i
PlainVanillaCallPayoff(i) ==
    PayoffPlainVanilla(paths[1], [option EXCEPT !.type = Call], engine.numSims,
                       numTimestepsOf(option), i)

ValFloor(i) ==
    LookbackFloor(paths[1], option, engine.numSims, numTimestepsOf(option), i)

\* C4 as stated: every Lookback payoff is >= 0 and >= the PlainVanilla Call
\* payoff of the same path.
C4_LookbackDominatesVanilla ==
    valPc = "done" =>
       \A i \in ValSims :
          /\ ValPayoff("Lookback", i) >= 0
          /\ ValPayoff("Lookback", i) >= PlainVanillaCallPayoff(i)

\* C4 amended: every Lookback payoff is >= 0, and it is >= the PlainVanilla
\* Call payoff of the same path whenever the strike is at least the floor
\* spot * valmin that the Lookback kernel subtracts.
C4_LookbackDominatesAboveFloor ==
    valPc = "done" =>
       \A i \in ValSims :
          /\ ValPayoff("Lookback", i) >= 0
          /\ option.strike >= ValFloor(i)
                => ValPayoff("Lookback", i) >= PlainVanillaCallPayoff(i)

C4_Witness ==
    /\ valPc = "done"
    /\ \E i \in ValSims :
          /\ option.strike >= ValFloor(i)
          /\ PlainVanillaCallPayoff(i) > 0
          /\ ValPayoff("Lookback", i) > PlainVanillaCallPayoff(i)

\* the smallest stored value of path i
PathMin(i) ==
    LET stored == {paths[1][t * engine.numSims + i] : t \in ValSteps}
    IN CHOOSE v \in stored : \A w \in stored : v <= w

PathLast(i) == paths[1][(numTimestepsOf(option) - 1) * engine.numSims + i]

\* C13: for every path the floor of the Lookback evaluator is spot times the
\* minimum of the stored values of the path, and the Lookback payoff is
\* max(0, spot * last stored value - floor).
C13_FloorIsPathMinimum ==
    valPc = "done" =>
       \A i \in ValSims :
          /\ ValFloor(i) = Mul(PathMin(i), option.spot)
          /\ ValPayoff("Lookback", i)
                = Max(0, Mul(PathLast(i), option.spot) - ValFloor(i))


\* ======================================================================
\* SpecCPU: PricingEngine::operator[] (the reference pricer) and box_muller
\* ======================================================================
\* the standard normal variates a draw can return
Normals == {-1, 0, 1}

\* exp(drift + diffusion * z): the multiplicative shock of one time step, a
\* positive factor that grows with z (1/2, 1, 3/2 for z = -1, 0, 1)
StepFactor(z) == One + z

\* valOp = (St > X) ? St - X : 0
CpuPayoff(opt, st) == IF st > opt.strike THEN st - opt.strike ELSE 0

CpuOptions ==
    [spot : {One * k : k \in 1 .. MaxSpot},
     strike : 0 .. MaxStrike,
     r : {1}, sigma : {1},
     tenor : 1 .. MaxSteps, dt : {1},
     barrier : {BigBarrier},
     type : {Call, Put},
     valueAsian : {Unset}, valuePlainVanilla : {Unset},
     valuePlainVanillaCPU : {Unset}, valueKnockout : {Unset},
     valueKnockin : {Unset}, valueLookback : {Unset}]

CpuInit ==
    /\ engine \in [numSims : 1 .. CpuMaxSims, threadBlockSize : {1}, seed : {0}]
    /\ launch = Launch(engine, 1)
    /\ option \in CpuOptions
    /\ paths = NoPaths
    /\ ValIdle
    /\ CpuIdle /\ NoValues /\ RedIdle /\ DevIdle /\ HostIdle

\* entry of operator[]: the locals are initialised; the statics of
\* box_muller keep whatever the previous calls left in them
CpuEnter ==
    /\ cpuPc = "idle"
    /\ cpuRuns < MaxRuns
    /\ St' = option.spot
    /\ sumVanilla' = 0
    /\ valOp' = 0
    /\ thisone' = 0
    /\ pos' = 0
    /\ cpuPc' = "outer"
    /\ UNCHANGED <<cpuRuns, cpuStatics, option, notCpu>>

\* for (thisone = 0; thisone < N; thisone++) { St = S; for (pos = 0; ...
CpuNextPath ==
    /\ cpuPc = "outer"
    /\ thisone < engine.numSims
    /\ St' = option.spot
    /\ pos' = 0
    /\ cpuPc' = "inner"
    /\ UNCHANGED <<cpuRuns, thisone, sumVanilla, valOp, cpuStatics, option, notCpu>>

\* box_muller with use_last set: returns the cached y2
CpuDrawCached ==
    /\ cpuPc = "inner"
    /\ pos < numTimestepsOf(option)
    /\ use_last # 0
    /\ St' = Mul(St, StepFactor(y2))
    /\ use_last' = 0
    /\ pos' = pos + 1
    /\ UNCHANGED <<cpuPc, cpuRuns, thisone, sumVanilla, valOp, y2, option, notCpu>>

\* box_muller with use_last clear: the rejection loop ends with a pair
\* (y1, y2); y1 is returned and y2 is cached
CpuDrawFresh ==
    /\ cpuPc = "inner"
    /\ pos < numTimestepsOf(option)
    /\ use_last = 0
    /\ \E y1 \in Normals, spare \in Normals :
          /\ St' = Mul(St, StepFactor(y1))
          /\ y2' = spare
    /\ use_last' = 1
    /\ pos' = pos + 1
    /\ UNCHANGED <<cpuPc, cpuRuns, thisone, sumVanilla, valOp, option, notCpu>>

\* the end of the inner loop: valOp, sumVanilla += valOp, thisone++
CpuPathPayoff ==
    /\ cpuPc = "inner"
    /\ ~ (pos < numTimestepsOf(option))
    /\ valOp' = CpuPayoff(option, St)
    /\ sumVanilla' = sumVanilla + CpuPayoff(option, St)
    /\ thisone' = thisone + 1
    /\ cpuPc' = "outer"
    /\ UNCHANGED <<cpuRuns, pos, St, cpuStatics, option, notCpu>>

\* option.valuePlainVanillaCPU = exp(-R * T) * sumVanilla / N
CpuFinish ==
    /\ cpuPc = "outer"
    /\ ~ (thisone < engine.numSims)
    /\ option' = [option EXCEPT
                    !.valuePlainVanillaCPU = Finish(sumVanilla, engine.numSims, option)]
    /\ cpuRuns' = cpuRuns + 1
    /\ cpuPc' = "idle"
    /\ UNCHANGED <<cpuLocals, cpuStatics, notCpu>>

CpuNext ==
    \/ CpuEnter \/ CpuNextPath \/ CpuDrawCached \/ CpuDrawFresh
    \/ CpuPathPayoff \/ CpuFinish

SpecCPU == CpuInit /\ [][CpuNext]_vars

\* ---- properties of the reference pricer (SpecCPU)
\* a path of the reference pricer has just been valued: St is its final
\* price and valOp its payoff
CpuPathValued == cpuPc = "outer" /\ thisone > 0

\* C9: the payoff the reference pricer accumulates for a path equals the
\* PlainVanilla payoff of the parallel evaluator for the same final price:
\* max(0, final - strike) for a Call, max(0, strike - final) for a Put.
C9_CpuPayoffIsPlainVanilla ==
    CpuPathValued => valOp = CallPutPayoff(option, St)

\* a call of operator[] has just been entered
CpuRunStarts == cpuPc = "outer" /\ thisone = 0

\* C10: every reference pricing run starts with no cached spare variate.
C10_RunStartsWithoutSpare ==
    CpuRunStarts => use_last = 0

\* ======================================================================
\* SpecReduce: the lanes of one thread block (bid 0) at the end of a
\* valuation kernel: reduce_sum(sumPayoffs), then values[bid] = sumPayoffs
\* by lane 0.  Every lane runs at its own pace; __syncthreads() holds a
\* lane until every lane of the block has reached the same barrier.
\* ======================================================================
RedLanes == 0 .. launch.block - 1

\* __syncthreads(): lane l may leave the barrier it waits at once every lane
\* has arrived at it
BarrierOpenAlways(l) == TRUE

BarrierOpen(l) == \A l2 \in RedLanes : redBar[l2] >= redBar[l]

\* the reduce_sum call a lane is in (1 for its first)
RedCall(l) == Len(redRet[l]) + 1


RedInit ==
    /\ engine = [numSims |-> 1, threadBlockSize |-> 1, seed |-> 0]
    /\ \E b \in 1 .. RedMaxBlock : launch = [grid |-> 1, block |-> b]
    /\ option = TestOption
    /\ paths = NoPaths
    /\ ValIdle /\ CpuIdle /\ DevIdle /\ HostIdle
    /\ d_values = [bid \in {0} |-> Uninit]
    /\ d_values2 = [bid \in {0} |-> Uninit]
    /\ sdata = [l \in RedLanes |-> Uninit]
    /\ redPc = [l \in RedLanes |-> "write"]
    /\ redS = [l \in RedLanes |-> 0]
    /\ redBar = [l \in RedLanes |-> 0]
    /\ redIn \in [RedLanes -> [1 .. 1 -> 0 .. MaxIn]]
    /\ redRet = [l \in RedLanes |-> << >>]

\* sdata[ltid] = in; __syncthreads();
RedWrite(l) ==
    /\ redPc[l] = "write"
    /\ sdata' = [sdata EXCEPT ![l] = redIn[l][RedCall(l)]]
    /\ redS' = [redS EXCEPT ![l] = launch.block]
    /\ redBar' = [redBar EXCEPT ![l] = @ + 1]
    /\ redPc' = [redPc EXCEPT ![l] = "sync"]
    /\ UNCHANGED <<redIn, redRet, valuesVars, notRed>>

\* leaving __syncthreads(): s = blockDim.x / 2 after the first barrier,
\* s >>= 1 after each barrier of the loop
RedBarrier(l) ==
    /\ redPc[l] = "sync"
    /\ BarrierOpen(l)
    /\ redS' = [redS EXCEPT ![l] = @ \div 2]
    /\ redPc' = [redPc EXCEPT ![l] = "loop"]
    /\ UNCHANGED <<sdata, redBar, redIn, redRet, valuesVars, notRed>>

\* if (ltid < s) sdata[ltid] += sdata[ltid + s]; __syncthreads();
RedAdd(l) ==
    /\ redPc[l] = "loop"
    /\ redS[l] > 0
    /\ l < redS[l]
    /\ sdata' = [sdata EXCEPT ![l] = @ + sdata[l + redS[l]]]
    /\ redBar' = [redBar EXCEPT ![l] = @ + 1]
    /\ redPc' = [redPc EXCEPT ![l] = "sync"]
    /\ UNCHANGED <<redS, redIn, redRet, valuesVars, notRed>>

\* a lane with ltid >= s only reaches the barrier
RedSkip(l) ==
    /\ redPc[l] = "loop"
    /\ redS[l] > 0
    /\ ~ (l < redS[l])
    /\ redBar' = [redBar EXCEPT ![l] = @ + 1]
    /\ redPc' = [redPc EXCEPT ![l] = "sync"]
    /\ UNCHANGED <<sdata, redS, redIn, redRet, valuesVars, notRed>>

\* return sdata[0]; the lane goes on to its next reduce_sum call, or to
\* the store
RedReturn(l) ==
    /\ redPc[l] = "loop"
    /\ redS[l] = 0
    /\ redRet' = [redRet EXCEPT ![l] = Append(@, sdata[0])]
    /\ redPc' = [redPc EXCEPT ![l] =
                   IF RedCall(l) < Len(redIn[l]) THEN "write" ELSE "store"]
    /\ UNCHANGED <<sdata, redS, redBar, redIn, valuesVars, notRed>>

\* if (threadIdx.x == 0) values[bid] = sumPayoffs;
RedStore(l) ==
    /\ redPc[l] = "store"
    /\ IF l = 0
       THEN /\ d_values' = [d_values EXCEPT ![0] = redRet[l][1]]
            /\ d_values2' = IF Len(redRet[l]) > 1
                            THEN [d_values2 EXCEPT ![0] = redRet[l][2]]
                            ELSE d_values2
       ELSE UNCHANGED valuesVars
    /\ redPc' = [redPc EXCEPT ![l] = "done"]
    /\ UNCHANGED <<sdata, redS, redBar, redIn, redRet, notRed>>

RedNext ==
    \/ \E l \in RedLanes : RedWrite(l)
    \/ \E l \in RedLanes : RedBarrier(l)
    \/ \E l \in RedLanes : RedAdd(l)
    \/ \E l \in RedLanes : RedSkip(l)
    \/ \E l \in RedLanes : RedReturn(l)
    \/ \E l \in RedLanes : RedStore(l)

SpecReduce == RedInit /\ [][RedNext]_vars

\* ---- properties of reduce_sum (SpecReduce)
RECURSIVE IsPowerOfTwo(_)
IsPowerOfTwo(n) == n = 1 \/ (n > 1 /\ n % 2 = 0 /\ IsPowerOfTwo(n \div 2))

\* the sequential fold in[0] + in[1] + ... + in[n-1] of the block's inputs
RECURSIVE FoldInputs(_, _)
FoldInputs(c, n) == IF n = 0 THEN 0 ELSE FoldInputs(c, n - 1) + redIn[n - 1][c]

\* lane l has left the final barrier of its call c and not yet returned
PastFinalBarrier(l) == redPc[l] = "loop" /\ redS[l] = 0

Lanes == 0 .. launch.grid * launch.block - 1
Blocks == 0 .. launch.grid - 1
ValuationKernels == {"PlainVanilla", "Asian", "Knockoutin", "Lookback"}

\* kernel K of run r may execute: it is the oldest incomplete launch
MayRunUnordered(r, K) == \E k \in DOMAIN stream[r] : stream[r][k] = K

MayRun(r, K) == stream[r] # << >> /\ Head(stream[r]) = K

\* curand_init(seed, tid, 0, &state): seed, subsequence, offset
curand_init(seed, tid) == [seed |-> seed, subsequence |-> tid, offset |-> 0]

\* the variate curand_normal returns in a given generator state: a fixed
\* function of (seed, subsequence, offset)
curand_normal(st) == ((st.seed + 2 * st.subsequence + st.offset) % 3) - 1

\* a curandState cudaMalloc returned and nothing has written
GarbageState == [seed |-> Uninit, subsequence |-> 0, offset |-> 0]

GenLaneStart == [pc |-> "load", localState |-> GarbageState, i |-> 0, t |-> 0, s |-> 0]

\* initRNG, lane tid: curand_init(seed, tid, 0, &rngStates[tid])
DevInitRNG(r, tid) ==
    /\ MayRun(r, "initRNG")
    /\ tid \notin initDone[r]
    /\ rngStates' = [rngStates EXCEPT ![r][tid] = curand_init(engine.seed, tid)]
    /\ initDone' = [initDone EXCEPT ![r] = @ \cup {tid}]
    /\ UNCHANGED <<stream, issued, genLane, pathWrites, valLane, blocksStored,
                   cfgVars, paths, valuesVars, hostVars, notRun>>

\* generatePaths, lane tid: localState = rngStates[tid]; i = tid
DevGenLoad(r, tid) ==
    /\ MayRun(r, "generatePaths")
    /\ genLane[r][tid].pc = "load"
    /\ genLane' = [genLane EXCEPT ![r][tid] =
                     [pc |-> IF tid < engine.numSims THEN "path" ELSE "done",
                      localState |-> rngStates[r][tid],
                      i |-> tid, t |-> 0, s |-> One]]
    /\ UNCHANGED <<stream, issued, rngStates, initDone, pathWrites, valLane,
                   blocksStored, cfgVars, paths, valuesVars, hostVars, notRun>>

\* generatePaths, lane tid, one time step of path i:
\* s *= getPathStep(drift, diffusion, localState); *output = s;
\* after the last step of the path, i += step (unsigned int); pathWrites
\* counts the writes of a cell up to 2
DevGenStep(r, tid) ==
    LET ln == genLane[r][tid]
        nt == numTimestepsOf(option)
        s2 == Mul(ln.s, StepFactor(curand_normal(ln.localState)))
        st2 == [ln.localState EXCEPT !.offset = @ + 1]
        cell == ln.t * engine.numSims + ln.i
        step == launch.grid * launch.block
    IN /\ MayRun(r, "generatePaths")
       /\ ln.pc = "path"
       /\ paths' = [paths EXCEPT ![r][cell] = s2]
       /\ pathWrites' = [pathWrites EXCEPT ![r][cell] = IF @ < 2 THEN @ + 1 ELSE @]
       /\ genLane' = [genLane EXCEPT ![r][tid] =
             IF ln.t + 1 < nt
             THEN [ln EXCEPT !.localState = st2, !.s = s2, !.t = ln.t + 1]
             ELSE [pc |-> IF U(ln.i + step) < engine.numSims THEN "path" ELSE "done",
                   localState |-> st2, i |-> U(ln.i + step), t |-> 0, s |-> One]]
       /\ UNCHANGED <<stream, issued, rngStates, initDone, valLane, blocksStored,
                      cfgVars, valuesVars, hostVars, notRun>>

\* a valuation kernel, lane tid: the grid-stride loop that accumulates
\* sumPayoffs (two sums in computeValueKnockoutin)
DevValAccumulate(K, tid) ==
    LET ns == engine.numSims
        nt == numTimestepsOf(option)
        step == launch.grid * launch.block
        sum(P) == LaneSum(P, paths[1], option, ns, nt, tid, step)
    IN /\ MayRun(1, K)
       /\ K \in ValuationKernels
       /\ valLane[tid] = << >>
       /\ valLane' = [valLane EXCEPT ![tid] =
                         IF K = "Knockoutin"
                         THEN <<sum("Knockout"), sum("Knockin")>>
                         ELSE <<sum(K)>>]
       /\ UNCHANGED <<stream, issued, rngStates, initDone, genLane, pathWrites,
                      blocksStored, cfgVars, paths, valuesVars, hostVars, notRun>>

\* a valuation kernel, block bid: reduce_sum over the block's lane sums and
\* the store by lane 0 (the lanes inside reduce_sum are SpecReduce)
DevValReduce(K, bid) ==
    LET in(c) == [l \in 0 .. launch.block - 1 |-> valLane[bid * launch.block + l][c]]
    IN /\ MayRun(1, K)
       /\ K \in ValuationKernels
       /\ bid \notin blocksStored
       /\ \A l \in 0 .. launch.block - 1 : valLane[bid * launch.block + l] # << >>
       /\ d_values' = [d_values EXCEPT ![bid] = ReduceTree(in(1), launch.block)]
       /\ d_values2' = IF K = "Knockoutin"
                       THEN [d_values2 EXCEPT ![bid] = ReduceTree(in(2), launch.block)]
                       ELSE d_values2
       /\ blocksStored' = blocksStored \cup {bid}
       /\ UNCHANGED <<stream, issued, rngStates, initDone, genLane, pathWrites,
                      valLane, cfgVars, paths, hostVars, notRun>>

KernelFinished(r, K) ==
    CASE K = "initRNG" -> initDone[r] = Lanes
      [] K = "generatePaths" -> \A tid \in Lanes : genLane[r][tid].pc = "done"
      [] OTHER -> blocksStored = Blocks

\* the oldest launch has finished: the stream moves on to the next one
DevComplete(r) ==
    /\ stream[r] # << >>
    /\ KernelFinished(r, Head(stream[r]))
    /\ stream' = [stream EXCEPT ![r] = Tail(@)]
    /\ UNCHANGED <<issued, rngStates, initDone, genLane, pathWrites, valLane,
                   blocksStored, cfgVars, paths, valuesVars, hostVars, notRun>>

\* ======================================================================
\* The host thread of PricingEngine::operator(), statement by statement
\* ======================================================================
\* a step whose Asian result is stored into the reference pricer's field
StepCrossed(op, kernel, buf, field) ==
    [op |-> op, kernel |-> kernel, buf |-> buf,
     field |-> IF field = "valueAsian" THEN "valuePlainVanillaCPU" ELSE field]

Step(op, kernel, buf, field) == [op |-> op, kernel |-> kernel, buf |-> buf, field |-> field]

Program ==
    << Step("props", "", "", ""),
       Step("precision", "", "", ""),
       Step("setdevice", "", "", ""),
       Step("size", "", "", ""),
       Step("attr", "initRNG", "", ""),
       Step("attr", "generatePaths", "", ""),
       Step("attr", "computeValueAsian", "", ""),
       Step("attr", "computeValuePlainVanilla", "", ""),
       Step("attr", "computeValueKnockoutin", "", ""),
       Step("attr", "computeValueLookback", "", ""),
       Step("malloc", "", "d_option", ""),
       Step("h2d", "", "d_option", ""),
       Step("malloc", "", "d_paths", ""),
       Step("malloc", "", "d_rngStates", ""),
       Step("malloc", "", "d_values", ""),
       Step("launch", "initRNG", "", ""),
       Step("launch", "generatePaths", "", ""),
       Step("launch", "PlainVanilla", "", ""),
       Step("d2h", "", "d_values", "valuePlainVanilla"),
       Step("launch", "Asian", "", ""),
       Step("d2h", "", "d_values", "valueAsian"),
       Step("malloc", "", "d_values2", ""),
       Step("launch", "Knockoutin", "", ""),
       Step("d2h", "", "d_values", "valueKnockout"),
       Step("d2h", "", "d_values2", "valueKnockin"),
       Step("launch", "Lookback", "", ""),
       Step("d2h", "", "d_values", "valueLookback"),
       Step("cleanup", "", "", "") >>

Returned == Len(Program) + 1
LaunchInitRNG == CHOOSE k \in DOMAIN Program : Program[k] = Step("launch", "initRNG", "", "")

At(r, op) ==
    /\ hostPc[r] \in DOMAIN Program
    /\ err = ""
    /\ Program[hostPc[r]].op = op
Goto(r) == hostPc' = [hostPc EXCEPT ![r] = @ + 1]

\* kernel<<<grid, block>>>(...): the launch is queued and the host goes on
HostLaunch(r) ==
    LET K == Program[hostPc[r]].kernel
    IN /\ At(r, "launch")
       /\ stream' = [stream EXCEPT ![r] = Append(@, K)]
       /\ issued' = [issued EXCEPT ![r] = @ \cup {K}]
       /\ initDone' = IF K = "initRNG" THEN [initDone EXCEPT ![r] = {}] ELSE initDone
       /\ genLane' = IF K = "generatePaths"
                     THEN [genLane EXCEPT ![r] = [tid \in Lanes |-> GenLaneStart]]
                     ELSE genLane
       /\ valLane' = IF K \in ValuationKernels THEN [tid \in Lanes |-> << >>] ELSE valLane
       /\ blocksStored' = IF K \in ValuationKernels THEN {} ELSE blocksStored
       /\ Goto(r)
       /\ UNCHANGED <<rngStates, pathWrites, cfgVars, paths, valuesVars, err, allocated,
                      frees, values, funcAttributes, deviceProperties, realType, notRun>>

\* ======================================================================
\* SpecGen: two pricing runs with the same option, seed and launch
\* configuration, from the launch of initRNG to the end of generatePaths
\* ======================================================================
GenLaunches ==
    {lc \in [grid : 1 .. GenMaxLanes, block : 1 .. GenMaxLanes] :
        lc.grid * lc.block <= GenMaxLanes}

GenInit ==
    /\ engine \in [numSims : 1 .. GenMaxSims, threadBlockSize : {1}, seed : 0 .. MaxSeed]
    /\ launch \in GenLaunches
    /\ \E n \in 1 .. MaxSteps : option = [TestOption EXCEPT !.tenor = n]
    /\ paths = [r \in Runs |->
                  [c \in PathCells(engine, option) |-> Uninit]]
    /\ pathWrites = [r \in Runs |->
                  [c \in PathCells(engine, option) |-> 0]]
    /\ rngStates = [r \in Runs |-> [tid \in Lanes |-> GarbageState]]
    /\ stream = [r \in Runs |-> << >>]
    /\ issued = [r \in Runs |-> {}]
    /\ initDone = [r \in Runs |-> {}]
    /\ genLane = [r \in Runs |-> << >>]
    /\ valLane = << >>
    /\ blocksStored = {}
    /\ hostPc = [r \in Runs |-> LaunchInitRNG]
    /\ err = ""
    /\ allocated = {"d_option", "d_paths", "d_rngStates", "d_values"}
    /\ frees = [b \in Buffers |-> 0]
    /\ values = << >>
    /\ funcAttributes = [kernel |-> "", maxThreadsPerBlock |-> 0]
    /\ deviceProperties = [version |-> 0, numSMs |-> 0]
    /\ realType = "float"
    /\ ValIdle /\ CpuIdle /\ NoValues /\ RedIdle

GenHostLaunch(r) ==
    /\ hostPc[r] \in {LaunchInitRNG, LaunchInitRNG + 1}
    /\ HostLaunch(r)

GenNext ==
    \/ \E r \in Runs : GenHostLaunch(r)
    \/ \E r \in Runs, tid \in Lanes : DevInitRNG(r, tid)
    \/ \E r \in Runs, tid \in Lanes : DevGenLoad(r, tid)
    \/ \E r \in Runs, tid \in Lanes : DevGenStep(r, tid)
    \/ \E r \in Runs : DevComplete(r)

SpecGen == GenInit /\ [][GenNext]_vars

\* ---- properties of path generation (SpecGen)
GenComplete(r) ==
    /\ "generatePaths" \in issued[r]
    /\ \A tid \in Lanes : genLane[r][tid].pc = "done"

\* the value of a cell as a function of (seed, lane, position in the lane's
\* stream): the product of the shocks drawn at positions base .. base + t
RECURSIVE StreamValue(_, _, _, _)
StreamValue(seed, lane, base, t) ==
    LET z == curand_normal([seed |-> seed, subsequence |-> lane, offset |-> base + t])
        before == IF t = 0 THEN One ELSE StreamValue(seed, lane, base, t - 1)
    IN Mul(before, StepFactor(z))

CellOf(i, t) == t * engine.numSims + i

Versions == {12, 13}

PrecisionMsg == "Device does not have double precision support"
TooLargeMsg(K) ==
    CASE K = "initRNG" -> "Block X dimension is too large for initRNG kernel"
      [] K = "generatePaths" -> "Block X dimension is too large for generatePaths kernel"
      [] K = "computeValueAsian" -> "Block X dimension is too large for computeValueAsian kernel"
      [] K = "computeValuePlainVanilla" -> "Block X dimension is too large for computeValuePlainVanilla kernel"
      [] K = "computeValueKnockoutin" -> "Block X dimension is too large for computeValueKnockoutin kernel"
      [] K = "computeValueLookback" -> "Block X dimension is too large for computeValueLookback kernel"

DeviceErrorMsg(st) ==
    CASE st.op = "props" -> "Could not get device properties: "
      [] st.op = "setdevice" -> "Could not set CUDA device: "
      [] st.op = "attr" -> "Could not get function attributes: "
      [] st.op = "h2d" -> "Could not copy data to device: "
      [] st.op = "d2h" -> "Could not copy partial results to host: "
      [] st.op = "malloc" /\ st.buf = "d_option" ->
            "Could not allocate memory on device for option data: "
      [] st.op = "malloc" /\ st.buf = "d_paths" ->
            "Could not allocate memory on device for paths: "
      [] st.op = "malloc" /\ st.buf = "d_rngStates" ->
            "Could not allocate memory on device for RNG state: "
      [] st.op = "malloc" /\ st.buf \in {"d_values", "d_values2"} ->
            "Could not allocate memory on device for partial results: "

\* block.x > (unsigned int)funcAttributes.maxThreadsPerBlock
BlockTooLargeOffByOne(b, m) == b >= m

BlockTooLarge(b, m) == b > m

Init ==
    /\ engine \in [numSims : 1 .. MaxSims, threadBlockSize : 1 .. MaxBlock, seed : {0}]
    /\ launch = [grid |-> 0, block |-> 0]
    /\ \E n \in 1 .. MaxSteps : option = [TestOption EXCEPT !.tenor = n]
    /\ paths = NoPaths
    /\ DevIdle
    /\ hostPc = [r \in Runs |-> IF r = 1 THEN 1 ELSE 0]
    /\ err = ""
    /\ allocated = {}
    /\ frees = [b \in Buffers |-> 0]
    /\ values = << >>
    /\ funcAttributes = [kernel |-> "", maxThreadsPerBlock |-> 0]
    /\ deviceProperties = [version |-> 0, numSMs |-> 0]
    /\ realType \in {"float", "double"}
    /\ ValIdle /\ CpuIdle /\ NoValues /\ RedIdle

hostFrame == <<devVars, paths, valuesVars, notRun>>

\* a device operation returns an error: the host throws std::runtime_error
\* (a copy to the host first waits for the kernels launched before it)
HostDeviceError ==
    /\ \E op \in {"props", "setdevice", "attr", "h2d", "d2h", "malloc"} : At(1, op)
    /\ Program[hostPc[1]].op = "d2h" => stream[1] = << >>
    /\ err' = DeviceErrorMsg(Program[hostPc[1]])
    /\ UNCHANGED <<hostPc, allocated, frees, values, funcAttributes, deviceProperties,
                   realType, cfgVars, hostFrame>>

\* cudaGetDeviceProperties(&deviceProperties, m_device)
HostGetDeviceProperties ==
    /\ At(1, "props")
    /\ \E v \in Versions : deviceProperties' = [version |-> v, numSMs |-> 1]
    /\ Goto(1)
    /\ UNCHANGED <<err, allocated, frees, values, funcAttributes, realType, cfgVars,
                   hostFrame>>

\* if (typeid(Real) == typeid(double) && deviceVersion < 13) throw
HostCheckPrecision ==
    /\ At(1, "precision")
    /\ IF realType = "double" /\ deviceProperties.version < 13
       THEN err' = PrecisionMsg /\ UNCHANGED hostPc
       ELSE Goto(1) /\ UNCHANGED err
    /\ UNCHANGED <<allocated, frees, values, funcAttributes, deviceProperties, realType,
                   cfgVars, hostFrame>>

\* cudaSetDevice(m_device)
HostSetDevice ==
    /\ At(1, "setdevice")
    /\ Goto(1)
    /\ UNCHANGED <<err, allocated, frees, values, funcAttributes, deviceProperties,
                   realType, cfgVars, hostFrame>>

\* block.x, grid.x and the halving loop
HostSizeWork ==
    /\ At(1, "size")
    /\ launch' = Launch(engine, deviceProperties.numSMs)
    /\ Goto(1)
    /\ UNCHANGED <<err, allocated, frees, values, funcAttributes, deviceProperties,
                   realType, engine, option, hostFrame>>

\* cudaFuncGetAttributes(&funcAttributes, K) and the check of block.x
HostFuncAttributes ==
    LET K == Program[hostPc[1]].kernel
    IN /\ At(1, "attr")
       /\ \E m \in 1 .. MaxThreads :
             /\ funcAttributes' = [kernel |-> K, maxThreadsPerBlock |-> m]
             /\ IF BlockTooLarge(launch.block, m)
                THEN err' = TooLargeMsg(K) /\ UNCHANGED hostPc
                ELSE Goto(1) /\ UNCHANGED err
       /\ UNCHANGED <<allocated, frees, values, deviceProperties, realType, cfgVars,
                      hostFrame>>

\* cudaMalloc succeeds: the buffer exists, its contents are whatever was there
HostMalloc ==
    LET buf == Program[hostPc[1]].buf
        cells == PathCells(engine, option)
    IN /\ At(1, "malloc")
       /\ allocated' = allocated \cup {buf}
       /\ paths' = IF buf = "d_paths"
                   THEN [paths EXCEPT ![1] = [c \in cells |-> Uninit]] ELSE paths
       /\ pathWrites' = IF buf = "d_paths"
                        THEN [pathWrites EXCEPT ![1] = [c \in cells |-> 0]] ELSE pathWrites
       /\ rngStates' = IF buf = "d_rngStates"
                       THEN [rngStates EXCEPT ![1] = [tid \in Lanes |-> GarbageState]]
                       ELSE rngStates
       /\ d_values' = IF buf = "d_values" THEN [bid \in Blocks |-> Uninit] ELSE d_values
       /\ d_values2' = IF buf = "d_values2" THEN [bid \in Blocks |-> Uninit] ELSE d_values2
       /\ Goto(1)
       /\ UNCHANGED <<err, frees, values, funcAttributes, deviceProperties, realType,
                      cfgVars, stream, issued, initDone, genLane, valLane, blocksStored,
                      notRun>>

\* cudaMemcpy(d_option, &option, ..., cudaMemcpyHostToDevice)
HostMemcpyToDevice ==
    /\ At(1, "h2d")
    /\ Goto(1)
    /\ UNCHANGED <<err, allocated, frees, values, funcAttributes, deviceProperties,
                   realType, cfgVars, hostFrame>>

\* cudaMemcpy(&values[0], buf, ..., cudaMemcpyDeviceToHost) after the kernels
\* launched before it have completed, then accumulate, mean and discount
HostMemcpyToHost ==
    LET st == Program[hostPc[1]]
        got == IF st.buf = "d_values2" THEN d_values2 ELSE d_values
    IN /\ At(1, "d2h")
       /\ stream[1] = << >>
       /\ values' = got
       /\ option' = [option EXCEPT ![st.field] =
                        Finish(Accumulate(got, launch.grid), engine.numSims, option)]
       /\ Goto(1)
       /\ UNCHANGED <<err, allocated, frees, funcAttributes, deviceProperties, realType,
                      engine, launch, hostFrame>>

\* Cleanup: cudaFree of every pointer that is not null
HostCleanup ==
    /\ At(1, "cleanup")
    /\ frees' = [b \in Buffers |-> IF b \in allocated THEN frees[b] + 1 ELSE frees[b]]
    /\ Goto(1)
    /\ UNCHANGED <<err, allocated, values, funcAttributes, deviceProperties, realType,
                   cfgVars, hostFrame>>

Next ==
    \/ HostDeviceError
    \/ HostGetDeviceProperties
    \/ HostCheckPrecision
    \/ HostSetDevice
    \/ HostSizeWork
    \/ HostFuncAttributes
    \/ HostMalloc
    \/ HostMemcpyToDevice
    \/ HostLaunch(1)
    \/ HostMemcpyToHost
    \/ HostCleanup
    \/ \E tid \in Lanes : DevInitRNG(1, tid)
    \/ \E tid \in Lanes : DevGenLoad(1, tid)
    \/ \E tid \in Lanes : DevGenStep(1, tid)
    \/ \E K \in ValuationKernels, tid \in Lanes : DevValAccumulate(K, tid)
    \/ \E K \in ValuationKernels, bid \in Blocks : DevValReduce(K, bid)
    \/ DevComplete(1)

Spec == Init /\ [][Next]_vars

\* ---- properties of the pricing run (Spec)
HostExited == hostPc[1] = Returned \/ err # ""

\* C1: when operator() returns or throws, every device buffer allocated
\* before that point has been released exactly once, and nothing else has
\* been released.
C1_AllBuffersReleased ==
    HostExited =>
       \A b \in Buffers : frees[b] = IF b \in allocated THEN 1 ELSE 0

InitComplete(r) == "initRNG" \in issued[r] /\ initDone[r] = Lanes
GenRunning(r) == MayRunUnordered(r, "generatePaths")

\* no lane of generatePaths has read its generator state before initRNG
\* seeded every state
SeededBeforeRead ==
    \A tid \in DOMAIN genLane[1] :
       genLane[1][tid].pc # "load" =>
          /\ InitComplete(1)
          /\ genLane[1][tid].localState.seed = engine.seed

\* no lane of a valuation kernel has read the path matrix before
\* generatePaths wrote every cell
WrittenBeforeRead ==
    \A tid \in DOMAIN valLane :
       valLane[tid] # << >> =>
          /\ GenComplete(1)
          /\ \A c \in DOMAIN paths[1] : paths[1][c] # Uninit

\* C7 as stated: the reads follow the writes, and no valuation pass is
\* issued while path generation is still running.
C7_PassesOrderedAndIssuedInTurn ==
    /\ SeededBeforeRead
    /\ WrittenBeforeRead
    /\ (issued[1] \cap ValuationKernels # {}) => ~ GenRunning(1)

\* C7 amended: the reads follow the writes, and no valuation pass is
\* executing while path generation is still running or unfinished (it may
\* have been issued: the stream holds it back).
C7_PassesOrdered ==
    /\ SeededBeforeRead
    /\ WrittenBeforeRead
    /\ \A K \in ValuationKernels :
          (MayRun(1, K) \/ K \in issued[1] \ {stream[1][k] : k \in DOMAIN stream[1]})
             => ~ GenRunning(1) /\ GenComplete(1)

C7_Witness ==
    /\ MayRun(1, "PlainVanilla")
    /\ \E tid \in Lanes : valLane[tid] # << >>
    /\ \E tid \in Lanes : valLane[tid] = << >>
    /\ \A c \in DOMAIN paths[1] : paths[1][c] # Uninit

\* C8: a validation failure (double precision on a device without it, or a
\* block size above a kernel's maximum) is thrown before any buffer is
\* allocated and before any kernel is launched, names the kernel whose
\* maximum the block size exceeds, and leaves the option as it was; and
\* no buffer is ever allocated for double precision on such a device.
UntouchedOption == option = [TestOption EXCEPT !.tenor = option.tenor]
NothingStarted == allocated = {} /\ issued[1] = {} /\ stream[1] = << >>
AttrKernels == {Program[k].kernel : k \in {j \in DOMAIN Program : Program[j].op = "attr"}}

C8_ValidationFailsFast ==
    /\ err = PrecisionMsg =>
          /\ realType = "double" /\ deviceProperties.version < 13
          /\ NothingStarted /\ UntouchedOption
    /\ \A K \in AttrKernels :
          err = TooLargeMsg(K) =>
             /\ funcAttributes.kernel = K
             /\ launch.block > funcAttributes.maxThreadsPerBlock
             /\ NothingStarted /\ UntouchedOption
    /\ ~ (realType = "double" /\ deviceProperties.version < 13 /\ hostPc[1] > 2)
    /\ (allocated # {} \/ issued[1] # {}) =>
          /\ launch.block <= funcAttributes.maxThreadsPerBlock
          /\ funcAttributes.kernel = "computeValueLookback"

C8_Witness ==
    /\ err = TooLargeMsg("computeValueLookback")
    /\ funcAttributes.kernel = "computeValueLookback"
    /\ launch.block > funcAttributes.maxThreadsPerBlock
    /\ NothingStarted

\* ======================================================================
\* SpecTest: Test<Real>::operator(): pricer(option) followed by
\* pricer[option] on the same option
\* ======================================================================
\* pricer[option] is called once, after pricer(option) has returned
TestCpuEnter ==
    /\ hostPc[1] = Returned
    /\ cpuRuns = 0
    /\ CpuEnter

TestNext ==
    \/ Next
    \/ TestCpuEnter
    \/ CpuNextPath
    \/ CpuDrawCached
    \/ CpuDrawFresh
    \/ CpuPathPayoff
    \/ CpuFinish

SpecTest == Init /\ [][TestNext]_vars

\* ---- properties of the two pricers on one option (SpecTest)
ContractFields == {"spot", "strike", "r", "sigma", "tenor", "dt", "barrier", "type"}
ParallelFields ==
    {"valuePlainVanilla", "valueAsian", "valueKnockout", "valueKnockin", "valueLookback"}
ReferenceFields == {"valuePlainVanillaCPU"}
ChangedFields == {f \in DOMAIN option : option'[f] # option[f]}
InReferencePricer == cpuPc # "idle"

\* C11: a step of operator[] changes no field of the option other than
\* valuePlainVanillaCPU, and its last step sets that field; a step of
\* operator() changes only the five parallel valuation fields, never
\* valuePlainVanillaCPU nor a contract parameter.
C11_FieldsWritten ==
    [][/\ DOMAIN option' = DOMAIN option
       /\ InReferencePricer => ChangedFields \subseteq ReferenceFields
       /\ (InReferencePricer /\ cpuPc' = "idle") => ChangedFields = ReferenceFields
       /\ ~ InReferencePricer => ChangedFields \subseteq ParallelFields]_vars

C11_Witness ==
    /\ hostPc[1] = Returned
    /\ cpuRuns = 1 /\ cpuPc = "idle"
    /\ \A f \in ParallelFields \cup ReferenceFields : option[f] # Unset
    /\ \A f \in ContractFields : option[f] = [TestOption EXCEPT !.tenor = option.tenor][f]

\* ======================================================================
\* SpecStride: initRNG and generatePaths of one run, for path counts near
\* both ends of the unsigned int range
\* ======================================================================
StrideSims == {n \in 1 .. Word - 1 : n <= StrideMaxSims \/ n >= Word - StrideMaxSims}

StrideLaunches ==
    {lc \in [grid : 1 .. StrideMaxLanes, block : 1 .. StrideMaxLanes] :
        lc.grid * lc.block <= StrideMaxLanes}

StrideInit ==
    /\ engine \in [numSims : StrideSims, threadBlockSize : {1}, seed : {0}]
    /\ launch \in StrideLaunches
    /\ \E n \in 1 .. MaxSteps :
          /\ engine.numSims * n < Word
          /\ option = [TestOption EXCEPT !.tenor = n]
    /\ paths = [r \in Runs |->
                  IF r = 1
                  THEN [c \in PathCells(engine, option) |-> Uninit]
                  ELSE << >>]
    /\ pathWrites = [r \in Runs |->
                  IF r = 1
                  THEN [c \in PathCells(engine, option) |-> 0]
                  ELSE << >>]
    /\ rngStates = [r \in Runs |-> IF r = 1 THEN [tid \in Lanes |-> GarbageState] ELSE << >>]
    /\ stream = [r \in Runs |-> << >>]
    /\ issued = [r \in Runs |-> {}]
    /\ initDone = [r \in Runs |-> {}]
    /\ genLane = [r \in Runs |-> << >>]
    /\ valLane = << >>
    /\ blocksStored = {}
    /\ hostPc = [r \in Runs |-> IF r = 1 THEN LaunchInitRNG ELSE 0]
    /\ err = ""
    /\ allocated = {"d_option", "d_paths", "d_rngStates", "d_values"}
    /\ frees = [b \in Buffers |-> 0]
    /\ values = << >>
    /\ funcAttributes = [kernel |-> "", maxThreadsPerBlock |-> 0]
    /\ deviceProperties = [version |-> 0, numSMs |-> 0]
    /\ realType = "float"
    /\ ValIdle /\ CpuIdle /\ NoValues /\ RedIdle

\* the cell the next store of a lane of generatePaths goes to
NextCell(ln) == ln.t * engine.numSims + ln.i

\* a lane is followed until it is about to store to a cell for the third time
StrideGenStep(tid) ==
    /\ MayRun(1, "generatePaths")
    /\ genLane[1][tid].pc = "path"
    /\ pathWrites[1][NextCell(genLane[1][tid])] < 2
    /\ DevGenStep(1, tid)

StrideNext ==
    \/ GenHostLaunch(1)
    \/ \E tid \in Lanes : DevInitRNG(1, tid)
    \/ \E tid \in Lanes : DevGenLoad(1, tid)
    \/ \E tid \in Lanes : StrideGenStep(tid)
    \/ DevComplete(1)

SpecStride == StrideInit /\ [][StrideNext]_vars

\* ---- properties of the grid-stride loop (SpecStride)
\* C12: generatePaths stores to every cell (i,t), 0 <= i < numPaths and
\* 0 <= t < numTimesteps, exactly once: no cell is stored to twice, every
\* cell has been stored to when the kernel completes, and the next store of
\* a lane tid goes to offset t*numPaths + i of a path i with
\* i mod laneCount = tid, inside the matrix.
C12_EveryCellOnce ==
    LET ns == engine.numSims
        nt == numTimestepsOf(option)
        lanes == launch.grid * launch.block
    IN /\ \A c \in DOMAIN pathWrites[1] : pathWrites[1][c] <= 1
       /\ GenComplete(1) => \A c \in DOMAIN pathWrites[1] : pathWrites[1][c] = 1
       /\ \A tid \in DOMAIN genLane[1] :
             genLane[1][tid].pc = "path" =>
                /\ genLane[1][tid].i < ns /\ genLane[1][tid].t < nt
                /\ genLane[1][tid].i % lanes = tid
                /\ NextCell(genLane[1][tid]) \in 0 .. ns * nt - 1
                /\ pathWrites[1][NextCell(genLane[1][tid])] = 0

\* ======================================================================
\* SpecSize: the work-sizing code of operator(), one loop iteration at a
\* time, for every unsigned int numSims, threadBlockSize and numSMs >= 1
\* ======================================================================
SizeStep == CHOOSE k \in DOMAIN Program : Program[k].op = "size"

SizeInit ==
    /\ engine \in [numSims : 1 .. Word - 1, threadBlockSize : 1 .. Word - 1, seed : {0}]
    /\ launch = [grid |-> 0, block |-> 0]
    /\ option = TestOption
    /\ paths = NoPaths
    /\ DevIdle
    /\ hostPc = [r \in Runs |-> IF r = 1 THEN SizeStep ELSE 0]
    /\ err = ""
    /\ allocated = {}
    /\ frees = [b \in Buffers |-> 0]
    /\ values = << >>
    /\ funcAttributes = [kernel |-> "", maxThreadsPerBlock |-> 0]
    /\ \E n \in 1 .. Word - 1 : deviceProperties = [version |-> 13, numSMs |-> n]
    /\ realType = "float"
    /\ ValIdle /\ CpuIdle /\ NoValues /\ RedIdle

sizeFrame ==
    <<err, allocated, frees, values, funcAttributes, deviceProperties, realType,
      engine, option, hostFrame>>

\* 2 * blocksPerSM * numSMs, an unsigned int
GridLimit == U(2 * blocksPerSM * deviceProperties.numSMs)

\* block.x = m_threadBlockSize; grid.x = (m_numSims + m_threadBlockSize - 1)
\* / m_threadBlockSize
SizeAssign ==
    /\ At(1, "size")
    /\ launch.block = 0
    /\ launch' = [grid |-> U(engine.numSims + engine.threadBlockSize - 1)
                              \div engine.threadBlockSize,
                  block |-> engine.threadBlockSize]
    /\ UNCHANGED <<hostPc, sizeFrame>>

\* while (grid.x > 2 * blocksPerSM * numSMs) grid.x >>= 1;
SizeHalve ==
    /\ At(1, "size")
    /\ launch.block # 0
    /\ launch.grid > GridLimit
    /\ launch' = [launch EXCEPT !.grid = @ \div 2]
    /\ UNCHANGED <<hostPc, sizeFrame>>

\* the loop condition is false: the sizing is over
SizeExit ==
    /\ At(1, "size")
    /\ launch.block # 0
    /\ ~ (launch.grid > GridLimit)
    /\ Goto(1)
    /\ UNCHANGED <<launch, sizeFrame>>

SizeNext == SizeAssign \/ SizeHalve \/ SizeExit

SpecSize == SizeInit /\ [][SizeNext]_vars /\ WF_vars(SizeNext)

\* ---- properties of the work sizing (SpecSize)
SizeDone == hostPc[1] = SizeStep + 1

\* the loop computes what HostSizeWork assigns in one step
SizeAgreesWithLaunch ==
    SizeDone => launch = Launch(engine, deviceProperties.numSMs)

\* ceil(numPaths / groupSize)
CeilDiv(a, b) == (a + b - 1) \div b

\* C14: the sizing loop terminates; the group count it selects is at least
\* 1 and at most 20 times the number of execution units; the group count
\* starts from ceil(numPaths / groupSize) and is only ever halved.
C14_GridSizing ==
    /\ [](SizeDone =>
            /\ launch.grid >= 1
            /\ launch.grid <= 2 * blocksPerSM * deviceProperties.numSMs)
    /\ [][/\ (launch.block = 0 /\ launch'.block # 0) =>
                launch'.grid = CeilDiv(engine.numSims, engine.threadBlockSize)
          /\ (launch.block # 0 /\ launch'.grid # launch.grid) =>
                launch'.grid = launch.grid \div 2]_vars
    /\ <>SizeDone

\* ======================================================================
\* SpecSum: one valuation kernel on a complete path matrix, for block
\* sizes that are and are not powers of two
\* ======================================================================
\* path values 1 and 3/2, so that every payoff of the test option counts
SumPathValues == {One, One + 1}

SumInit ==
    /\ engine \in [numSims : 1 .. SumMaxSims, threadBlockSize : 1 .. SumMaxBlock, seed : {0}]
    /\ \E g \in 1 .. SumMaxGrid : launch = [grid |-> g, block |-> engine.threadBlockSize]
    /\ option = [TestOption EXCEPT !.tenor = 1]
    /\ \E p \in [0 .. engine.numSims - 1 -> SumPathValues] :
          paths = [r \in Runs |-> IF r = 1 THEN p ELSE << >>]
    /\ pathWrites = [r \in Runs |->
                       IF r = 1 THEN [c \in 0 .. engine.numSims - 1 |-> 1] ELSE << >>]
    /\ rngStates = [r \in Runs |-> << >>]
    /\ \E K \in ValuationKernels :
          /\ stream = [r \in Runs |-> IF r = 1 THEN <<K>> ELSE << >>]
          /\ issued = [r \in Runs |-> IF r = 1 THEN {K} ELSE {}]
    /\ initDone = [r \in Runs |-> {}]
    /\ genLane = [r \in Runs |-> << >>]
    /\ valLane = [tid \in Lanes |-> << >>]
    /\ blocksStored = {}
    /\ d_values = [bid \in Blocks |-> Uninit]
    /\ d_values2 = [bid \in Blocks |-> Uninit]
    /\ hostPc = [r \in Runs |-> 0]
    /\ err = ""
    /\ allocated = Buffers
    /\ frees = [b \in Buffers |-> 0]
    /\ values = << >>
    /\ funcAttributes = [kernel |-> "", maxThreadsPerBlock |-> 0]
    /\ deviceProperties = [version |-> 0, numSMs |-> 0]
    /\ realType = "float"
    /\ ValIdle /\ CpuIdle /\ RedIdle

SumNext ==
    \/ \E K \in ValuationKernels, tid \in Lanes : DevValAccumulate(K, tid)
    \/ \E K \in ValuationKernels, bid \in Blocks : DevValReduce(K, bid)
    \/ DevComplete(1)

SpecSum == SumInit /\ [][SumNext]_vars

\* ---- properties of the partial sums (SpecSum)
\* the sum of the payoffs of paths 0 .. n - 1
RECURSIVE TotalPayoff(_, _)
TotalPayoff(P, n) ==
    IF n = 0 THEN 0
    ELSE TotalPayoff(P, n - 1)
            + Payoff(P, paths[1], option, engine.numSims, numTimestepsOf(option), n - 1)

SumKernelDone == blocksStored = Blocks

\* C15: when a valuation pass has stored its partial sums, their sum is the
\* sum of the payoffs of all paths, for every block size (power of two or
\* not), every grid size and every number of paths.
C15_PartialSumsCoverEveryPath ==
    SumKernelDone =>
       \A K \in ValuationKernels :
          K \in issued[1] =>
             IF K = "Knockoutin"
             THEN /\ Accumulate(d_values, launch.grid)
                        = TotalPayoff("Knockout", engine.numSims)
                  /\ Accumulate(d_values2, launch.grid)
                        = TotalPayoff("Knockin", engine.numSims)
             ELSE Accumulate(d_values, launch.grid) = TotalPayoff(K, engine.numSims)

\* ======================================================================
\* SpecKnockReduce: the end of computeValueKnockoutin: one block running
\* reduce_sum on its knockout sums and then on its knockin sums
\* ======================================================================
KnockRedInit ==
    /\ engine = [numSims |-> 1, threadBlockSize |-> 1, seed |-> 0]
    /\ \E b \in 1 .. RedMaxBlock : launch = [grid |-> 1, block |-> b]
    /\ option = TestOption
    /\ paths = NoPaths
    /\ ValIdle /\ CpuIdle /\ DevIdle /\ HostIdle
    /\ d_values = [bid \in {0} |-> Uninit]
    /\ d_values2 = [bid \in {0} |-> Uninit]
    /\ sdata = [l \in RedLanes |-> Uninit]
    /\ redPc = [l \in RedLanes |-> "write"]
    /\ redS = [l \in RedLanes |-> 0]
    /\ redBar = [l \in RedLanes |-> 0]
    /\ redIn \in [RedLanes -> [1 .. 2 -> 0 .. MaxIn]]
    /\ redRet = [l \in RedLanes |-> << >>]

SpecKnockReduce == KnockRedInit /\ [][RedNext]_vars

\* ---- properties of the two reductions (SpecKnockReduce)
\* C16: under every interleaving of the lanes that the barriers permit, the
\* values lane 0 stores are the block's knockout sum and the block's knockin
\* sum: slot 0 still holds the first sum when lane 0 reads it, and the
\* second sum contains no value of the first reduction.
C16_BackToBackReductions ==
    /\ (PastFinalBarrier(0) /\ RedCall(0) = 1)
          => sdata[0] = FoldInputs(1, launch.block)
    /\ redPc[0] = "done" =>
          /\ d_values[0] = FoldInputs(1, launch.block)
          /\ d_values2[0] = FoldInputs(2, launch.block)

\* ======================================================================
\* SpecAlloc: operator() from the allocation of the path buffer to the end
\* of generatePaths, for path matrices up to and beyond the unsigned int
\* range
\* ======================================================================
MallocPaths ==
    CHOOSE k \in DOMAIN Program : Program[k].op = "malloc" /\ Program[k].buf = "d_paths"

AllocInit ==
    /\ engine \in [numSims : 1 .. AllocMaxSims, threadBlockSize : 1 .. AllocMaxSims,
                   seed : {0}]
    /\ launch = Launch(engine, 1)
    /\ \E n \in 1 .. AllocMaxSteps : option = [TestOption EXCEPT !.tenor = n]
    /\ paths = NoPaths
    /\ DevIdle
    /\ hostPc = [r \in Runs |-> IF r = 1 THEN MallocPaths ELSE 0]
    /\ err = ""
    /\ allocated = {"d_option"}
    /\ frees = [b \in Buffers |-> 0]
    /\ values = << >>
    /\ funcAttributes = [kernel |-> "computeValueLookback", maxThreadsPerBlock |-> AllocMaxSims]
    /\ deviceProperties = [version |-> 13, numSMs |-> 1]
    /\ realType = "float"
    /\ ValIdle /\ CpuIdle /\ NoValues /\ RedIdle

\* a store outside the buffer has no defined outcome: a lane is followed
\* until it is about to make one
AllocGenStep(tid) ==
    /\ MayRun(1, "generatePaths")
    /\ genLane[1][tid].pc = "path"
    /\ NextCell(genLane[1][tid]) \in DOMAIN paths[1]
    /\ DevGenStep(1, tid)

AllocNext ==
    \/ HostDeviceError
    \/ HostMalloc
    \/ GenHostLaunch(1)
    \/ \E tid \in Lanes : DevInitRNG(1, tid)
    \/ \E tid \in Lanes : DevGenLoad(1, tid)
    \/ \E tid \in Lanes : AllocGenStep(tid)
    \/ DevComplete(1)

SpecAlloc == AllocInit /\ [][AllocNext]_vars

\* ---- properties of the path buffer (SpecAlloc)
\* C17: the path buffer holds at least numPaths * numTimesteps elements, so
\* every store of generatePaths, at offset t*numPaths + i, lies inside it;
\* its element count is numPaths * numTimesteps modulo the unsigned int
\* range.
C17_PathBufferHoldsMatrix ==
    LET ns == engine.numSims
        nt == numTimestepsOf(option)
    IN "d_paths" \in allocated =>
          /\ Cardinality(DOMAIN paths[1]) >= ns * nt
          /\ Cardinality(DOMAIN paths[1]) = (ns * nt) % Word
          /\ \A tid \in DOMAIN genLane[1] :
                genLane[1][tid].pc = "path" =>
                   NextCell(genLane[1][tid]) \in DOMAIN paths[1]

====
